---- MODULE Spec2Model ----
(***************************************************************************)
(* Model of the Quark host network bridge core:                            *)
(*   qkernel/src/tcpip/buffer/view.rs        View, VectorisedView          *)
(*   qvisor/.../HostFileMap/rdma_socket.rs   RDMADataSock, RDMAServerSock  *)
(* Three specifications share the module: SpecView (one View), SpecVV (one *)
(* VectorisedView) and SpecSock (one data descriptor with concurrent       *)
(* Notify callers, the guest and the host).                                *)
(***************************************************************************)
EXTENDS Integers, Sequences, FiniteSets, TLC

VARIABLES
    \* ---- View (view.rs:19) ----
    bview,        \* View.0, the visible bytes
    created,      \* ghost: length the View was created with
    capped,       \* ghost: <<smallest length passed to CapLength so far>>, <<>> if none
    viewPanic,    \* the last call panicked (split_off with at > len)
    viewOp,       \* ghost: last call on the View
    \* ---- VectorisedView (view.rs:65) ----
    views,        \* VectorisedView.views
    size,         \* VectorisedView.size
    underflow,    \* a usize subtraction went below zero (debug panic / release wrap)
    vvLive,       \* FALSE once the value was moved into a by-value method
    op,           \* ghost: last call on the VectorisedView
    pre,          \* ghost: views/size before the last call
    mat,          \* the View returned by ToView, NoView if none
    matSrc,       \* ghost: views/size of the VectorisedView that ToView consumed
    \* ---- RDMADataSockIntern (rdma_socket.rs:99) ----
    readLock,     \* readLock is held
    writeLock,    \* writeLock is held
    \* ---- SocketBuff (qlib::socket_buf, shared with the guest) ----
    rmem,         \* memory of the read ring
    rProduced,    \* bytes produced into the read ring so far (read pump's cursor)
    rConsumed,    \* bytes the guest consumed from the read ring so far
    wmem,         \* memory of the write ring
    wProduced,    \* bytes the guest staged into the write ring so far
    wConsumed,    \* bytes consumed from the write ring so far (write pump's cursor)
    rClosed,      \* read side closed latch
    wClosed,      \* write side closed latch
    bufErr,       \* latched error, NoError if none
    pendingWShutdown, \* the guest asked for a shutdown once the data is flushed
    \* ---- host socket ----
    hostInPos,    \* bytes of the incoming stream handed to read calls so far
    hostEOF,      \* a read call returned 0
    hostOut,      \* bytes handed to host write calls, in call order
    \* ---- ghost ----
    visible,      \* bytes made visible by produce, in order
    \* ---- threads calling Notify / Read / Write ----
    th,           \* per thread: position and locals of the running call
    \* ---- AcceptQueue (qlib, shared between RDMAServerSock and the guest) ----
    acceptQueue,  \* AcceptQueue.queue: the accepted connections not yet taken
    queueErr,     \* AcceptQueue error latch, NoError if none
    dequeued,     \* ghost: connections the guest took from the queue, in order
    \* ---- host listening socket ----
    arrived,      \* connections completed by the host so far
    acceptedN,    \* connections handed out by accept4 so far
    \* ---- threads calling RDMAServerSock::Notify ----
    ath           \* per thread: position and locals of the running Accept

viewVars == <<bview, created, capped, viewPanic, viewOp>>
vvVars   == <<views, size, underflow, vvLive, op, pre, mat, matSrc>>
bufVars  == <<rmem, rProduced, rConsumed, wmem, wProduced, wConsumed,
              rClosed, wClosed, bufErr, pendingWShutdown>>
hostVars == <<hostInPos, hostEOF, hostOut>>
sockVars == <<readLock, writeLock, bufVars, hostVars, visible, th>>
accVars  == <<acceptQueue, queueErr, dequeued, arrived, acceptedN, ath>>
vars     == <<viewVars, vvVars, sockVars, accVars>>

----------------------------------------------------------------------------
\* Bounds of the model
MaxByte    == 1      \* bytes are 0..MaxByte
MaxSegLen  == 2      \* longest initial segment / View
MaxSegs    == 2      \* most segments of an initial VectorisedView
MaxArg     == 4      \* largest count/length argument tried
MaxTotal   == 4      \* most bytes a VectorisedView holds after an Append
RingSize   == 2      \* bytes in each ring of the socket buffer
MaxIn      == 2      \* length of the host's incoming byte stream
MaxOut     == 2      \* most bytes the guest stages
QueueLen   == 2      \* capacity of the accept queue
MaxConns   == 3      \* most connections the host completes

Bytes == 0..MaxByte
NoView == <<-1>>

Min(a, b) == IF a < b THEN a ELSE b
Max(a, b) == IF a > b THEN a ELSE b

SeqsUpTo(S, n) == UNION {[1..k -> S] : k \in 0..n}

RECURSIVE SumLen(_)
SumLen(vs) == IF vs = <<>> THEN 0 ELSE Len(Head(vs)) + SumLen(Tail(vs))

RECURSIVE Concat(_)
Concat(vs) == IF vs = <<>> THEN <<>> ELSE Head(vs) \o Concat(Tail(vs))

Zeros(n) == [i \in 1..n |-> 0]

----------------------------------------------------------------------------
\* Vec<T>::split_off(at): the vector keeps [0, at) and the call returns [at, len)
SplitOff(s, at) == SubSeq(s, at + 1, Len(s))

\* Vec<u8>::resize(new_len, 0): truncates, or extends with zeros
Resize(s, newLen) ==
    IF newLen <= Len(s) THEN SubSeq(s, 1, newLen)
    ELSE s \o Zeros(newLen - Len(s))

\* View::New
ViewNew(n) == Zeros(n)

\* View::TrimFront: self.0 = self.0.split_off(count)
ViewTrimFront(v, count) == SplitOff(v, count)

\* View::CapLength: self.0.resize(length, 0)
ViewCapLength(v, length) == Resize(v, length)

----------------------------------------------------------------------------
\* VectorisedView as a value: [views, size, underflow]
VV(vs, sz, uf) == [views |-> vs, size |-> sz, underflow |-> uf]

\* VectorisedView::New
VVNew(sz, vs) == VV(vs, sz, FALSE)

\* usize "a -= b": the mathematical difference, with the underflow recorded
USub(vv, b) == [vv EXCEPT !.size = vv.size - b,
                          !.underflow = vv.underflow \/ (b > vv.size)]

\* VectorisedView::RemoveFirst
VVRemoveFirst(vv) ==
    IF Len(vv.views) = 0 THEN vv
    ELSE [USub(vv, Len(vv.views[1])) EXCEPT !.views = Tail(vv.views)]

\* a TrimFront that subtracts the caller's count instead of the remaining one
RECURSIVE TrimLoopOrigCount(_, _, _)
TrimLoopOrigCount(vv, count, orig) ==
    IF count > 0 /\ Len(vv.views) > 0
    THEN IF count < Len(vv.views[1])
         THEN [USub(vv, orig) EXCEPT !.views[1] = ViewTrimFront(@, count)]
         ELSE TrimLoopOrigCount(VVRemoveFirst(vv), count - Len(vv.views[1]), orig)
    ELSE vv

VVTrimFrontOrigCount(vv, count) == TrimLoopOrigCount(vv, count, count)

\* VectorisedView::TrimFront
RECURSIVE VVTrimFront(_, _)
VVTrimFront(vv, count) ==
    IF count > 0 /\ Len(vv.views) > 0
    THEN IF count < Len(vv.views[1])
         THEN [USub(vv, count) EXCEPT !.views[1] = ViewTrimFront(@, count)]
         ELSE VVTrimFront(VVRemoveFirst(vv), count - Len(vv.views[1]))
    ELSE vv

\* the for loop of VectorisedView::CapLength; i is the 0-based index
RECURSIVE CapLoop(_, _, _)
CapLoop(vv, i, length) ==
    IF i >= Len(vv.views) THEN vv
    ELSE LET v == vv.views[i + 1] IN
         IF Len(v) >= length
         THEN IF length = 0
              THEN [vv EXCEPT !.views = SplitOff(vv.views, i)]
              ELSE [vv EXCEPT !.views =
                        SplitOff([vv.views EXCEPT ![i + 1] = ViewCapLength(v, length)], i + 1)]
         ELSE CapLoop(vv, i + 1, length - Len(v))

\* VectorisedView::CapLength: the value of self when the method returns
VVCapLength(vv, length) ==
    IF vv.size < length THEN vv
    ELSE CapLoop([vv EXCEPT !.size = length], 0, length)

\* VectorisedView::Append
VVAppend(vv, vv2) ==
    [vv EXCEPT !.views = vv.views \o vv2.views, !.size = vv.size + vv2.size]

\* a ToView that prepends each segment
RECURSIVE ConcatRev(_)
ConcatRev(vs) == IF vs = <<>> THEN <<>> ELSE ConcatRev(Tail(vs)) \o Head(vs)

VVToViewPrepend(vv) == ConcatRev(vv.views)

\* VectorisedView::ToView: the returned View
VVToView(vv) == Concat(vv.views)

\* View::ToVectorisedView
ViewToVectorisedView(v) == VVNew(Len(v), <<v>>)

----------------------------------------------------------------------------
\* SpecView: one View under TrimFront / CapLength

Op(n, a) == [name |-> n, arg |-> a]

ViewIdle ==
    /\ bview = <<>> /\ created = 0 /\ capped = <<>>
    /\ viewPanic = FALSE /\ viewOp = Op("none", 0)

\* View::New(size) or View::NewFromBytes(b)
InitViewVars ==
    /\ bview \in SeqsUpTo(Bytes, MaxSegLen)
    /\ created = Len(bview)
    /\ capped = <<>>
    /\ viewPanic = FALSE
    /\ viewOp = Op("New", Len(bview))

View_TrimFront ==
    \E count \in 0..MaxArg :
        /\ ~viewPanic
        /\ count <= Len(bview)
        /\ bview' = ViewTrimFront(bview, count)
        /\ viewOp' = Op("TrimFront", count)
        /\ UNCHANGED <<created, capped, viewPanic>>

\* split_off panics when at > len
View_TrimFrontPanic ==
    \E count \in 0..MaxArg :
        /\ ~viewPanic
        /\ count > Len(bview)
        /\ viewPanic' = TRUE
        /\ viewOp' = Op("TrimFront", count)
        /\ UNCHANGED <<bview, created, capped>>

View_CapLength ==
    \E length \in 0..MaxArg :
        /\ ~viewPanic
        /\ bview' = ViewCapLength(bview, length)
        /\ capped' = IF capped = <<>> THEN <<length>> ELSE <<Min(capped[1], length)>>
        /\ viewOp' = Op("CapLength", length)
        /\ UNCHANGED <<created, viewPanic>>

----------------------------------------------------------------------------
\* SpecVV: one VectorisedView

NoSrc == [views |-> <<>>, size |-> 0, underflow |-> FALSE]

VVIdle ==
    /\ views = <<>> /\ size = 0 /\ underflow = FALSE /\ vvLive = FALSE
    /\ op = Op("none", 0) /\ pre = VV(<<>>, 0, FALSE)
    /\ mat = NoView /\ matSrc = NoSrc

\* segments of the given lengths holding the bytes 1, 2, 3, ... in order
RECURSIVE SumTo(_, _)
SumTo(lens, i) == IF i = 0 THEN 0 ELSE lens[i] + SumTo(lens, i - 1)

Numbered(lens) ==
    [i \in 1..Len(lens) |-> [k \in 1..lens[i] |-> SumTo(lens, i - 1) + k]]

\* VectorisedView::New(size, views) with size the sum of the segment lengths
InitVVVars ==
    /\ views \in {Numbered(lens) : lens \in SeqsUpTo(0..MaxSegLen, MaxSegs)}
    /\ size = SumLen(views)
    /\ underflow = FALSE
    /\ vvLive = TRUE
    /\ op = Op("New", size)
    /\ pre = VV(views, size, FALSE)
    /\ mat = NoView
    /\ matSrc = NoSrc

Self == VV(views, size, underflow)

Store(vv) == /\ views' = vv.views /\ size' = vv.size /\ underflow' = vv.underflow

VV_TrimFront ==
    \E count \in 0..MaxArg :
        /\ vvLive
        /\ Store(VVTrimFront(Self, count))
        /\ op' = Op("TrimFront", count)
        /\ pre' = Self
        /\ matSrc' = NoSrc
        /\ UNCHANGED <<vvLive, mat>>

\* CapLength takes self by value: the receiver is moved into the call
VV_CapLength ==
    \E length \in 0..MaxArg :
        /\ vvLive
        /\ Store(VVCapLength(Self, length))
        /\ vvLive' = FALSE
        /\ op' = Op("CapLength", length)
        /\ pre' = Self
        /\ matSrc' = NoSrc
        /\ UNCHANGED mat

VV_RemoveFirst ==
    /\ vvLive
    /\ Store(VVRemoveFirst(Self))
    /\ op' = Op("RemoveFirst", 0)
    /\ pre' = Self
    /\ matSrc' = NoSrc
    /\ UNCHANGED <<vvLive, mat>>

VV_Append ==
    \E n \in 0..MaxSegLen :
        LET seg == ViewNew(n)
            vv2 == ViewToVectorisedView(seg)
        IN
        /\ vvLive
        /\ Len(views) < MaxSegs
        /\ SumLen(views) + n <= MaxTotal
        /\ Store(VVAppend(Self, vv2))
        /\ op' = Op("Append", vv2.size)
        /\ pre' = Self
        /\ matSrc' = NoSrc
        /\ UNCHANGED <<vvLive, mat>>

\* ToView takes self by value; data.append(&mut v.0) drains every segment
VV_ToView ==
    /\ vvLive
    /\ mat' = VVToView(Self)
    /\ matSrc' = Self
    /\ views' = [i \in 1..Len(views) |-> <<>>]
    /\ vvLive' = FALSE
    /\ op' = Op("ToView", 0)
    /\ pre' = Self
    /\ UNCHANGED <<size, underflow>>

View_ToVectorisedView ==
    /\ mat /= NoView
    /\ Store(ViewToVectorisedView(mat))
    /\ vvLive' = TRUE
    /\ mat' = NoView
    /\ op' = Op("ToVectorisedView", 0)
    /\ pre' = Self
    /\ UNCHANGED matSrc

----------------------------------------------------------------------------
\* SpecSock: one RDMADataSock, its SocketBuff, the host socket and the guest

Threads == {"t1", "t2"}

\* event bits of FdNotify masks and of the readiness mask
EVENT_IN  == {"IN"}
EVENT_OUT == {"OUT"}
EVENT_ERR == {"ERR"}
EVENT_HUP == {"HUP"}
EVENT_PENDING_SHUTDOWN == {"PENDING_SHUTDOWN"}
EVENT_READ  == {"READ"}
EVENT_WRITE == {"WRITE"}
EventMasks == SUBSET (EVENT_READ \cup EVENT_WRITE)

NoError == "0"
EAGAIN  == "EAGAIN"
ECONNRESET == "ECONNRESET"
EMFILE  == "EMFILE"

\* the i-th byte of the host's incoming stream / of the guest's staged stream
InByte(i)  == i
OutByte(i) == i

Ring == 0..(RingSize - 1)

\* ---- SocketBuff operations ----
\* GetFreeReadBuf: the contiguous free region at the produce cursor
FreeReadBuf(prod, cons) ==
    [addr  |-> prod % RingSize,
     count |-> Min(RingSize - (prod % RingSize), RingSize - (prod - cons))]

GetFreeReadBuf == FreeReadBuf(rProduced, rConsumed)

\* ProduceAndGetFreeReadBuf(n): trigger when the ring was empty before
ProduceAndGetFreeReadBuf(n) ==
    [trigger |-> (rProduced = rConsumed),
     produced |-> rProduced + n,
     addr  |-> FreeReadBuf(rProduced + n, rConsumed).addr,
     count |-> FreeReadBuf(rProduced + n, rConsumed).count]

\* GetAvailableWriteBuf: the contiguous staged region at the consume cursor
AvailableWriteBuf(prod, cons) ==
    [addr  |-> cons % RingSize,
     count |-> Min(RingSize - (cons % RingSize), prod - cons)]

GetAvailableWriteBuf == AvailableWriteBuf(wProduced, wConsumed)

\* ConsumeAndGetAvailableWriteBuf(n): trigger when the ring was full before
ConsumeAndGetAvailableWriteBuf(n) ==
    [trigger |-> (wProduced - wConsumed = RingSize),
     consumed |-> wConsumed + n,
     addr  |-> AvailableWriteBuf(wProduced, wConsumed + n).addr,
     count |-> AvailableWriteBuf(wProduced, wConsumed + n).count]

HasReadData  == rProduced - rConsumed > 0
HasWriteData == wProduced - wConsumed > 0
PendingWriteShutdown == pendingWShutdown
Error == bufErr

\* ---- thread records ----
IdleThread ==
    [pc |-> "idle", mask |-> {},
     addr |-> 0, count |-> 0, len |-> 0, errno |-> NoError,
     trigger |-> FALSE,
     \* ghost, per call
     sigs |-> <<>>, ioCalls |-> 0, advanced |-> 0, errAtEntry |-> NoError,
     dir |-> "none", zeroAt |-> -1, zeroIo |-> -1, ended |-> "none"]

SockIdle ==
    /\ readLock = FALSE /\ writeLock = FALSE
    /\ rmem = [i \in Ring |-> 0] /\ rProduced = 0 /\ rConsumed = 0
    /\ wmem = [i \in Ring |-> 0] /\ wProduced = 0 /\ wConsumed = 0
    /\ rClosed = FALSE /\ wClosed = FALSE /\ bufErr = NoError
    /\ pendingWShutdown = FALSE
    /\ hostInPos = 0 /\ hostEOF = FALSE /\ hostOut = <<>>
    /\ visible = <<>>
    /\ th = [t \in {} |-> IdleThread]

\* RDMADataSock::New over SocketBuff::default()
InitSockVars ==
    /\ readLock = FALSE /\ writeLock = FALSE
    /\ rmem = [i \in Ring |-> 0] /\ rProduced = 0 /\ rConsumed = 0
    /\ wmem = [i \in Ring |-> 0] /\ wProduced = 0 /\ wConsumed = 0
    /\ rClosed = FALSE /\ wClosed = FALSE /\ bufErr = NoError
    /\ pendingWShutdown = FALSE
    /\ hostInPos = 0 /\ hostEOF = FALSE /\ hostOut = <<>>
    /\ visible = <<>>
    /\ th = [t \in Threads |-> IdleThread]

\* A returned call's frame is discarded before any other step is taken: Return
\* touches nothing shared, so taking it first loses no interleaving.
NoneReturning == \A t \in Threads : th[t].pc /= "ret"

\* FdNotify(fd, mask) from thread t
FdNotify(r, m) == [r EXCEPT !.sigs = Append(@, m)]

\* ---- RDMADataSock::Notify ----
\* a Notify that signals the latched error and dispatches all the same
NotifyNoReturn(t) ==
    \E eventmask \in EventMasks :
        /\ NoneReturning
        /\ th[t].pc = "idle"
        /\ LET r0 == [th[t] EXCEPT !.mask = eventmask, !.errAtEntry = Error]
               r1 == IF Error /= NoError
                     THEN FdNotify(r0, EVENT_ERR \cup EVENT_IN) ELSE r0
           IN th' = [th EXCEPT ![t] =
                IF eventmask \cap EVENT_READ /= {}
                THEN [r1 EXCEPT !.pc = "r_lock"]
                ELSE IF eventmask \cap EVENT_WRITE /= {}
                THEN [r1 EXCEPT !.pc = "w_lock"]
                ELSE [r1 EXCEPT !.pc = "ret", !.ended = "nobits"]]
        /\ UNCHANGED <<readLock, writeLock, bufVars, hostVars, visible>>

\* a Notify that looks at the write bit first
NotifyWriteFirst(t) ==
    \E eventmask \in EventMasks :
        /\ NoneReturning
        /\ th[t].pc = "idle"
        /\ LET r0 == [th[t] EXCEPT !.mask = eventmask, !.errAtEntry = Error]
           IN th' = [th EXCEPT ![t] =
                IF Error /= NoError
                THEN [FdNotify(r0, EVENT_ERR \cup EVENT_IN) EXCEPT
                          !.pc = "ret", !.ended = "latched"]
                ELSE IF eventmask \cap EVENT_WRITE /= {}
                THEN [r0 EXCEPT !.pc = "w_lock"]
                ELSE IF eventmask \cap EVENT_READ /= {}
                THEN [r0 EXCEPT !.pc = "r_lock"]
                ELSE [r0 EXCEPT !.pc = "ret", !.ended = "nobits"]]
        /\ UNCHANGED <<readLock, writeLock, bufVars, hostVars, visible>>

\* a Notify that dispatches on the ready bits and looks at the latched error
\* only when no bit is set
NotifyDispatchFirst(t) ==
    \E eventmask \in EventMasks :
        /\ NoneReturning
        /\ th[t].pc = "idle"
        /\ LET r0 == [th[t] EXCEPT !.mask = eventmask, !.errAtEntry = Error]
           IN th' = [th EXCEPT ![t] =
                IF eventmask \cap EVENT_READ /= {}
                THEN [r0 EXCEPT !.pc = "r_lock"]
                ELSE IF eventmask \cap EVENT_WRITE /= {}
                THEN [r0 EXCEPT !.pc = "w_lock"]
                ELSE IF Error /= NoError
                THEN [FdNotify(r0, EVENT_ERR \cup EVENT_IN) EXCEPT
                          !.pc = "ret", !.ended = "latched"]
                ELSE [r0 EXCEPT !.pc = "ret", !.ended = "nobits"]]
        /\ UNCHANGED <<readLock, writeLock, bufVars, hostVars, visible>>

Notify(t) ==
    \E eventmask \in EventMasks :
        /\ NoneReturning
        /\ th[t].pc = "idle"
        /\ LET r0 == [th[t] EXCEPT !.mask = eventmask, !.errAtEntry = Error]
           IN th' = [th EXCEPT ![t] =
                IF Error /= NoError
                THEN [FdNotify(r0, EVENT_ERR \cup EVENT_IN) EXCEPT
                          !.pc = "ret", !.ended = "latched"]
                ELSE IF eventmask \cap EVENT_READ /= {}
                THEN [r0 EXCEPT !.pc = "r_lock"]
                ELSE IF eventmask \cap EVENT_WRITE /= {}
                THEN [r0 EXCEPT !.pc = "w_lock"]
                ELSE [r0 EXCEPT !.pc = "ret", !.ended = "nobits"]]
        /\ UNCHANGED <<readLock, writeLock, bufVars, hostVars, visible>>

\* a direct call of the public Read / Write
CallRead(t) ==
    /\ NoneReturning
    /\ th[t].pc = "idle"
    /\ th' = [th EXCEPT ![t].pc = "r_lock"]
    /\ UNCHANGED <<readLock, writeLock, bufVars, hostVars, visible>>

CallWrite(t) ==
    /\ NoneReturning
    /\ th[t].pc = "idle"
    /\ th' = [th EXCEPT ![t].pc = "w_lock"]
    /\ UNCHANGED <<readLock, writeLock, bufVars, hostVars, visible>>

\* the call returned; its frame is gone
Return(t) ==
    /\ th[t].pc = "ret"
    /\ th' = [th EXCEPT ![t] = IdleThread]
    /\ UNCHANGED <<readLock, writeLock, bufVars, hostVars, visible>>

\* ---- RDMADataSock::Read ----
\* a lock() that does not wait for the holder
ReadLockNoWait(t) ==
    /\ NoneReturning
    /\ th[t].pc = "r_lock"
    /\ LET f == GetFreeReadBuf IN
       IF f.count = 0
       THEN /\ th' = [th EXCEPT ![t].pc = "ret", ![t].ended = "nospace", ![t].mask = {},
                                ![t].dir = "read"]
            /\ readLock' = FALSE
       ELSE /\ th' = [th EXCEPT ![t].pc = "r_read", ![t].addr = f.addr,
                                ![t].count = f.count, ![t].mask = {},
                                ![t].dir = "read"]
            /\ readLock' = TRUE
    /\ UNCHANGED <<writeLock, bufVars, hostVars, visible>>

\* let _readlock = self.readLock.lock(), then GetFreeReadBuf and the
\* count == 0 return (which drops the guard)
ReadLock(t) ==
    /\ NoneReturning
    /\ th[t].pc = "r_lock"
    /\ ~readLock
    /\ LET f == GetFreeReadBuf IN
       IF f.count = 0
       THEN /\ th' = [th EXCEPT ![t].pc = "ret", ![t].ended = "nospace", ![t].mask = {},
                                ![t].dir = "read"]
            /\ readLock' = FALSE
       ELSE /\ th' = [th EXCEPT ![t].pc = "r_read", ![t].addr = f.addr,
                                ![t].count = f.count, ![t].mask = {},
                                ![t].dir = "read"]
            /\ readLock' = TRUE
    /\ UNCHANGED <<writeLock, bufVars, hostVars, visible>>

\* a pump without the len < count return: after a short read it asks the host
\* again while the buffer has room
ReadDataNoShortStop(t, r, n, mem) ==
    LET p  == ProduceAndGetFreeReadBuf(n)
        r1 == [(IF p.trigger THEN FdNotify(r, EVENT_IN) ELSE r) EXCEPT
                  !.len = n, !.ioCalls = @ + 1, !.advanced = @ + n,
                  !.trigger = p.trigger]
    IN
    /\ rProduced' = p.produced
    /\ visible' = visible \o
           [k \in 1..n |-> mem[(rProduced + k - 1) % RingSize]]
    /\ IF p.count = 0
       THEN /\ th' = [th EXCEPT ![t] = [r1 EXCEPT !.pc = "ret", !.ended = "full"]]
            /\ readLock' = FALSE
       ELSE /\ th' = [th EXCEPT ![t] =
                 [r1 EXCEPT !.pc = "r_read", !.addr = p.addr, !.count = p.count]]
            /\ UNCHANGED readLock

\* what the pump does with a positive len: ProduceAndGetFreeReadBuf, FdNotify
\* on trigger, then return or loop
ReadData(t, r, n, mem) ==
    LET p  == ProduceAndGetFreeReadBuf(n)
        r1 == [(IF p.trigger THEN FdNotify(r, EVENT_IN) ELSE r) EXCEPT
                  !.len = n, !.ioCalls = @ + 1, !.advanced = @ + n,
                  !.trigger = p.trigger]
    IN
    /\ rProduced' = p.produced
    /\ visible' = visible \o
           [k \in 1..n |-> mem[(rProduced + k - 1) % RingSize]]
    /\ IF n < r.count
       THEN /\ th' = [th EXCEPT ![t] = [r1 EXCEPT !.pc = "ret", !.ended = "short"]]
            /\ readLock' = FALSE
       ELSE IF p.count = 0
       THEN /\ th' = [th EXCEPT ![t] = [r1 EXCEPT !.pc = "ret", !.ended = "full"]]
            /\ readLock' = FALSE
       ELSE /\ th' = [th EXCEPT ![t] =
                 [r1 EXCEPT !.pc = "r_read", !.addr = p.addr, !.count = p.count]]
            /\ UNCHANGED readLock

\* len == 0: SetRClosed
ReadZero(t, r) ==
    /\ rClosed' = TRUE
    /\ th' = [th EXCEPT ![t] = [r EXCEPT !.pc = "r_closed", !.len = 0,
                                         !.ioCalls = @ + 1,
                                         !.zeroAt = Len(r.sigs),
                                         !.zeroIo = r.ioCalls + 1]]
    /\ UNCHANGED <<readLock, rProduced, bufErr, visible>>

\* a pump that asks the host again after EAGAIN instead of returning
ReadWouldBlockRetry(t, r) ==
    /\ th' = [th EXCEPT ![t] = [r EXCEPT !.len = -1, !.errno = EAGAIN,
                                         !.ioCalls = @ + 1]]
    /\ UNCHANGED <<readLock, rProduced, rClosed, bufErr, visible>>

\* an EAGAIN that is not told apart from the other errors
ReadWouldBlockAsError(t, r) ==
    /\ bufErr' = EAGAIN
    /\ th' = [th EXCEPT ![t] = [r EXCEPT !.pc = "r_err", !.len = -1,
                                         !.errno = EAGAIN, !.ioCalls = @ + 1]]
    /\ UNCHANGED <<readLock, rProduced, rClosed, visible>>

\* len < 0 with errno == EAGAIN: return
ReadWouldBlock(t, r) ==
    /\ th' = [th EXCEPT ![t] = [r EXCEPT !.pc = "ret", !.len = -1,
                                         !.errno = EAGAIN, !.ioCalls = @ + 1,
                                         !.ended = "eagain"]]
    /\ readLock' = FALSE
    /\ UNCHANGED <<rProduced, rClosed, bufErr, visible>>

\* len < 0 with another errno: SetErr
ReadError(t, r, e) ==
    /\ bufErr' = e
    /\ th' = [th EXCEPT ![t] = [r EXCEPT !.pc = "r_err", !.len = -1,
                                         !.errno = e, !.ioCalls = @ + 1]]
    /\ UNCHANGED <<readLock, rProduced, rClosed, visible>>

\* one pass of the loop: read(fd, addr, count) on the non-blocking host
\* socket and the handling of its result up to the next buffer access
ReadHost(t) ==
    /\ NoneReturning
    /\ th[t].pc = "r_read"
    /\ LET r == th[t] IN
       \/ \E n \in 1..Min(r.count, MaxIn - hostInPos) :
            LET mem == [i \in Ring |->
                          IF \E k \in 0..(n - 1) : i = (r.addr + k) % RingSize
                          THEN InByte(hostInPos + 1 +
                                 ((i - r.addr + RingSize) % RingSize))
                          ELSE rmem[i]]
            IN
            /\ ~hostEOF
            /\ rmem' = mem
            /\ hostInPos' = hostInPos + n
            /\ ReadData(t, r, n, mem)
            /\ UNCHANGED <<hostEOF, rClosed, bufErr>>
       \/ /\ hostEOF' = TRUE
          /\ ReadZero(t, r)
          /\ UNCHANGED <<rmem, hostInPos>>
       \/ /\ ~hostEOF
          /\ ReadWouldBlock(t, r)
          /\ UNCHANGED <<rmem, hostInPos, hostEOF>>
       \/ /\ ~hostEOF
          /\ ReadError(t, r, ECONNRESET)
          /\ UNCHANGED <<rmem, hostInPos, hostEOF>>
    /\ UNCHANGED <<writeLock, rConsumed, wmem, wProduced, wConsumed, wClosed,
                   pendingWShutdown, hostOut>>

\* a closed branch without its else
ReadClosedSignalBoth(t) ==
    /\ NoneReturning
    /\ th[t].pc = "r_closed"
    /\ th' = [th EXCEPT ![t] =
          [FdNotify(IF HasReadData THEN FdNotify(th[t], EVENT_IN) ELSE th[t],
                    EVENT_HUP)
             EXCEPT !.pc = "ret", !.ended = "closed"]]
    /\ readLock' = FALSE
    /\ UNCHANGED <<writeLock, bufVars, hostVars, visible>>

\* after SetRClosed: HasReadData, FdNotify, return
ReadClosedSignal(t) ==
    /\ NoneReturning
    /\ th[t].pc = "r_closed"
    /\ th' = [th EXCEPT ![t] =
          [FdNotify(th[t], IF HasReadData THEN EVENT_IN ELSE EVENT_HUP)
             EXCEPT !.pc = "ret", !.ended = "closed"]]
    /\ readLock' = FALSE
    /\ UNCHANGED <<writeLock, bufVars, hostVars, visible>>

\* after SetErr: FdNotify, return
ReadErrSignal(t) ==
    /\ NoneReturning
    /\ th[t].pc = "r_err"
    /\ th' = [th EXCEPT ![t] =
          [FdNotify(th[t], EVENT_ERR \cup EVENT_IN)
             EXCEPT !.pc = "ret", !.ended = "error"]]
    /\ readLock' = FALSE
    /\ UNCHANGED <<writeLock, bufVars, hostVars, visible>>

\* ---- RDMADataSock::Write ----
\* a lock() that does not wait for the holder
WriteLockNoWait(t) ==
    /\ NoneReturning
    /\ th[t].pc = "w_lock"
    /\ LET a == GetAvailableWriteBuf IN
       IF a.count = 0
       THEN /\ th' = [th EXCEPT ![t].pc = "ret", ![t].ended = "nodata", ![t].mask = {},
                                ![t].dir = "write"]
            /\ writeLock' = FALSE
       ELSE /\ th' = [th EXCEPT ![t].pc = "w_write", ![t].addr = a.addr,
                                ![t].count = a.count, ![t].mask = {},
                                ![t].dir = "write"]
            /\ writeLock' = TRUE
    /\ UNCHANGED <<readLock, bufVars, hostVars, visible>>

\* a pump without the count == 0 return: it goes to the host with nothing to
\* send
WriteLockNoEmptyCheck(t) ==
    /\ NoneReturning
    /\ th[t].pc = "w_lock"
    /\ ~writeLock
    /\ LET a == GetAvailableWriteBuf IN
       /\ th' = [th EXCEPT ![t].pc = "w_write", ![t].addr = a.addr,
                           ![t].count = a.count, ![t].mask = {},
                           ![t].dir = "write"]
       /\ writeLock' = TRUE
    /\ UNCHANGED <<readLock, bufVars, hostVars, visible>>

\* let _writelock = self.writeLock.lock(), then GetAvailableWriteBuf and the
\* count == 0 return (which drops the guard)
WriteLock(t) ==
    /\ NoneReturning
    /\ th[t].pc = "w_lock"
    /\ ~writeLock
    /\ LET a == GetAvailableWriteBuf IN
       IF a.count = 0
       THEN /\ th' = [th EXCEPT ![t].pc = "ret", ![t].ended = "nodata", ![t].mask = {},
                                ![t].dir = "write"]
            /\ writeLock' = FALSE
       ELSE /\ th' = [th EXCEPT ![t].pc = "w_write", ![t].addr = a.addr,
                                ![t].count = a.count, ![t].mask = {},
                                ![t].dir = "write"]
            /\ writeLock' = TRUE
    /\ UNCHANGED <<readLock, bufVars, hostVars, visible>>

\* a pump that signals the pending shutdown after every full write, whether
\* or not bytes are left to send
WriteDataShutdownEarly(t, r, n) ==
    LET c  == ConsumeAndGetAvailableWriteBuf(n)
        r1 == [(IF c.trigger THEN FdNotify(r, EVENT_OUT) ELSE r) EXCEPT
                  !.len = n, !.ioCalls = @ + 1, !.advanced = @ + n,
                  !.trigger = c.trigger]
        r2 == IF PendingWriteShutdown
              THEN FdNotify(r1, EVENT_PENDING_SHUTDOWN) ELSE r1
    IN
    /\ wConsumed' = c.consumed
    /\ IF n < r.count
       THEN /\ th' = [th EXCEPT ![t] = [r1 EXCEPT !.pc = "ret", !.ended = "short"]]
            /\ writeLock' = FALSE
       ELSE IF c.count = 0
       THEN /\ th' = [th EXCEPT ![t] = [r2 EXCEPT !.pc = "ret", !.ended = "drained"]]
            /\ writeLock' = FALSE
       ELSE /\ th' = [th EXCEPT ![t] =
                 [r2 EXCEPT !.pc = "w_write", !.addr = c.addr, !.count = c.count]]
            /\ UNCHANGED writeLock

\* what the pump does with a positive len: ConsumeAndGetAvailableWriteBuf,
\* FdNotify on trigger, then return (with the pending shutdown signal) or loop
WriteData(t, r, n) ==
    LET c  == ConsumeAndGetAvailableWriteBuf(n)
        r1 == [(IF c.trigger THEN FdNotify(r, EVENT_OUT) ELSE r) EXCEPT
                  !.len = n, !.ioCalls = @ + 1, !.advanced = @ + n,
                  !.trigger = c.trigger]
    IN
    /\ wConsumed' = c.consumed
    /\ IF n < r.count
       THEN /\ th' = [th EXCEPT ![t] = [r1 EXCEPT !.pc = "ret", !.ended = "short"]]
            /\ writeLock' = FALSE
       ELSE IF c.count = 0
       THEN /\ th' = [th EXCEPT ![t] =
                 [(IF PendingWriteShutdown
                   THEN FdNotify(r1, EVENT_PENDING_SHUTDOWN) ELSE r1)
                    EXCEPT !.pc = "ret", !.ended = "drained"]]
            /\ writeLock' = FALSE
       ELSE /\ th' = [th EXCEPT ![t] =
                 [r1 EXCEPT !.pc = "w_write", !.addr = c.addr, !.count = c.count]]
            /\ UNCHANGED writeLock

\* len == 0: SetWClosed
WriteZero(t, r) ==
    /\ wClosed' = TRUE
    /\ th' = [th EXCEPT ![t] = [r EXCEPT !.pc = "w_closed", !.len = 0,
                                         !.ioCalls = @ + 1,
                                         !.zeroAt = Len(r.sigs),
                                         !.zeroIo = r.ioCalls + 1]]
    /\ UNCHANGED <<writeLock, wConsumed, bufErr>>

\* len < 0 with errno == EAGAIN: return
WriteWouldBlock(t, r) ==
    /\ th' = [th EXCEPT ![t] = [r EXCEPT !.pc = "ret", !.len = -1,
                                         !.errno = EAGAIN, !.ioCalls = @ + 1,
                                         !.ended = "eagain"]]
    /\ writeLock' = FALSE
    /\ UNCHANGED <<wConsumed, wClosed, bufErr>>

\* len < 0 with another errno: SetErr
WriteError(t, r, e) ==
    /\ bufErr' = e
    /\ th' = [th EXCEPT ![t] = [r EXCEPT !.pc = "w_err", !.len = -1,
                                         !.errno = e, !.ioCalls = @ + 1]]
    /\ UNCHANGED <<writeLock, wConsumed, wClosed>>

\* one pass of the loop: write(fd, addr, count) on the non-blocking host
\* socket and the handling of its result up to the next buffer access
WriteHost(t) ==
    /\ NoneReturning
    /\ th[t].pc = "w_write"
    /\ LET r == th[t] IN
       \/ \E n \in 1..r.count :
            /\ hostOut' = hostOut \o
                 [k \in 1..n |-> wmem[(r.addr + k - 1) % RingSize]]
            /\ WriteData(t, r, n)
            /\ UNCHANGED <<wClosed, bufErr>>
       \/ /\ WriteZero(t, r)
          /\ UNCHANGED hostOut
       \/ /\ WriteWouldBlock(t, r)
          /\ UNCHANGED hostOut
       \/ /\ WriteError(t, r, ECONNRESET)
          /\ UNCHANGED hostOut
    /\ UNCHANGED <<readLock, rmem, rProduced, rConsumed, wmem, wProduced,
                   rClosed, pendingWShutdown, hostInPos, hostEOF, visible>>

\* after SetWClosed: HasWriteData, FdNotify, return
WriteClosedSignal(t) ==
    /\ NoneReturning
    /\ th[t].pc = "w_closed"
    /\ th' = [th EXCEPT ![t] =
          [FdNotify(th[t], IF HasWriteData THEN EVENT_OUT ELSE EVENT_HUP)
             EXCEPT !.pc = "ret", !.ended = "closed"]]
    /\ writeLock' = FALSE
    /\ UNCHANGED <<readLock, bufVars, hostVars, visible>>

\* after SetErr: FdNotify, return
WriteErrSignal(t) ==
    /\ NoneReturning
    /\ th[t].pc = "w_err"
    /\ th' = [th EXCEPT ![t] =
          [FdNotify(th[t], EVENT_ERR \cup EVENT_IN)
             EXCEPT !.pc = "ret", !.ended = "error"]]
    /\ writeLock' = FALSE
    /\ UNCHANGED <<readLock, bufVars, hostVars, visible>>

\* ---- the guest side of the SocketBuff ----
\* the guest consumes k unread bytes of the read ring
GuestConsume ==
    \E k \in 1..RingSize :
        /\ NoneReturning
        /\ k <= rProduced - rConsumed
        /\ rConsumed' = rConsumed + k
        /\ UNCHANGED <<readLock, writeLock, rmem, rProduced, wmem, wProduced,
                       wConsumed, rClosed, wClosed, bufErr, pendingWShutdown,
                       hostVars, visible, th>>

\* the guest stages the next byte of its output into the write ring
GuestStage ==
    /\ NoneReturning
    /\ wProduced < MaxOut
    /\ wProduced - wConsumed < RingSize
    /\ ~pendingWShutdown
    /\ wmem' = [wmem EXCEPT ![wProduced % RingSize] = OutByte(wProduced + 1)]
    /\ wProduced' = wProduced + 1
    /\ UNCHANGED <<readLock, writeLock, rmem, rProduced, rConsumed, wConsumed,
                   rClosed, wClosed, bufErr, pendingWShutdown, hostVars,
                   visible, th>>

\* the guest shuts the write side down while data may still be staged
GuestShutdown ==
    /\ NoneReturning
    /\ ~pendingWShutdown
    /\ pendingWShutdown' = TRUE
    /\ UNCHANGED <<readLock, writeLock, rmem, rProduced, rConsumed, wmem,
                   wProduced, wConsumed, rClosed, wClosed, bufErr, hostVars,
                   visible, th>>

----------------------------------------------------------------------------
\* RDMAServerSock (rdma_socket.rs:24) and its AcceptQueue

\* ---- AcceptQueue, as the contract of the accept queue describes it ----
\* Err()
Err == queueErr
\* HasSpace()
HasSpace == Len(acceptQueue) < QueueLen
\* EnqSocket(fd, ...): the entry is pushed; the trigger is the empty to
\* non-empty transition, the second result is the space left afterwards
EnqSocket(fd) ==
    [queue    |-> Append(acceptQueue, fd),
     trigger  |-> acceptQueue = <<>>,
     hasSpace |-> Len(acceptQueue) + 1 < QueueLen]

\* locals of one RDMAServerSock::Accept call, with its ghosts
IdleAccept ==
    [pc          |-> "idle",
     hasSpace    |-> FALSE,
     fd          |-> 0,
     errno       |-> NoError,
     sigs        |-> <<>>,      \* ghost: masks passed to FdNotify by this call
     enq         |-> 0,         \* ghost: connections this call enqueued
     freeAtEntry |-> 0,         \* ghost: free slots of the queue when the call began
     quiet       |-> TRUE,      \* ghost: nobody else touched the queue's entries since
     ended       |-> "none"]

AccIdle ==
    /\ acceptQueue = <<>> /\ queueErr = NoError /\ dequeued = <<>>
    /\ arrived = 0 /\ acceptedN = 0
    /\ ath = [t \in {} |-> IdleAccept]

InitAccVars ==
    /\ acceptQueue = <<>> /\ queueErr = NoError /\ dequeued = <<>>
    /\ arrived = 0 /\ acceptedN = 0
    /\ ath = [t \in Threads |-> IdleAccept]

\* A returned Accept's frame is discarded before any other step is taken
NoAcceptReturning == \A t \in Threads : ath[t].pc /= "ret"

\* every other running Accept has seen the queue's entries change
Disturb(a, t) ==
    [u \in Threads |->
        IF u /= t /\ a[u].pc /= "idle" THEN [a[u] EXCEPT !.quiet = FALSE]
        ELSE a[u]]

\* RDMAServerSock::Notify calls Accept: acceptQueue.lock().Err() and, when an
\* error is latched, FdNotify and return
Server_Notify(t) ==
    /\ NoAcceptReturning
    /\ ath[t].pc = "idle"
    /\ LET r0 == [ath[t] EXCEPT !.freeAtEntry =
                        Max(QueueLen - Len(acceptQueue), 0)]
       IN ath' = [ath EXCEPT ![t] =
            IF Err /= NoError
            THEN [FdNotify(r0, EVENT_ERR \cup EVENT_IN) EXCEPT
                      !.pc = "ret", !.ended = "latched"]
            ELSE [r0 EXCEPT !.pc = "a_space"]]
    /\ UNCHANGED <<acceptQueue, queueErr, dequeued, arrived, acceptedN>>

\* let mut hasSpace = acceptQueue.lock().HasSpace()
Accept_HasSpace(t) ==
    /\ NoAcceptReturning
    /\ ath[t].pc = "a_space"
    /\ ath' = [ath EXCEPT ![t].hasSpace = HasSpace, ![t].pc = "a_loop"]
    /\ UNCHANGED <<acceptQueue, queueErr, dequeued, arrived, acceptedN>>

\* while hasSpace { accept4(...) }: the loop test and the non-blocking accept
\* with its three outcomes
Accept_Accept4(t) ==
    /\ NoAcceptReturning
    /\ ath[t].pc = "a_loop"
    /\ IF ~ath[t].hasSpace
       THEN /\ ath' = [ath EXCEPT ![t].pc = "ret", ![t].ended = "full"]
            /\ UNCHANGED acceptedN
       ELSE \/ /\ acceptedN < arrived
               /\ acceptedN' = acceptedN + 1
               /\ ath' = [ath EXCEPT ![t].fd = acceptedN + 1, ![t].pc = "a_enq"]
            \/ /\ acceptedN = arrived
               /\ ath' = [ath EXCEPT ![t].errno = EAGAIN, ![t].pc = "ret",
                                     ![t].ended = "eagain"]
               /\ UNCHANGED acceptedN
            \/ /\ ath' = [ath EXCEPT ![t].errno = EMFILE, ![t].pc = "a_errsig"]
               /\ UNCHANGED acceptedN
    /\ UNCHANGED <<acceptQueue, queueErr, dequeued, arrived>>

\* errno other than EAGAIN: FdNotify(minefd, EVENT_ERR | EVENT_IN) ...
Accept_ErrSignal(t) ==
    /\ NoAcceptReturning
    /\ ath[t].pc = "a_errsig"
    /\ ath' = [ath EXCEPT ![t] =
          [FdNotify(ath[t], EVENT_ERR \cup EVENT_IN) EXCEPT !.pc = "a_seterr"]]
    /\ UNCHANGED <<acceptQueue, queueErr, dequeued, arrived, acceptedN>>

\* ... then acceptQueue.lock().SetErr(errno) and return
Accept_SetErr(t) ==
    /\ NoAcceptReturning
    /\ ath[t].pc = "a_seterr"
    /\ queueErr' = ath[t].errno
    /\ ath' = [ath EXCEPT ![t].pc = "ret", ![t].ended = "error"]
    /\ UNCHANGED <<acceptQueue, dequeued, arrived, acceptedN>>

\* an Accept that forgets hasSpace = tmp
Accept_EnqKeepsHasSpace(t) ==
    /\ NoAcceptReturning
    /\ ath[t].pc = "a_enq"
    /\ LET e  == EnqSocket(ath[t].fd)
           r1 == [(IF e.trigger THEN FdNotify(ath[t], EVENT_IN) ELSE ath[t])
                    EXCEPT !.enq = @ + 1, !.pc = "a_loop"]
       IN /\ acceptQueue' = e.queue
          /\ ath' = Disturb([ath EXCEPT ![t] = r1], t)
    /\ UNCHANGED <<queueErr, dequeued, arrived, acceptedN>>

\* the new descriptor is registered and wrapped (AddSocket, SocketBuff,
\* RDMADataSock::New, Addfd, AddWait), then EnqSocket, hasSpace = tmp and
\* FdNotify(minefd, EVENT_IN) on trigger
Accept_Enq(t) ==
    /\ NoAcceptReturning
    /\ ath[t].pc = "a_enq"
    /\ LET e  == EnqSocket(ath[t].fd)
           r1 == [(IF e.trigger THEN FdNotify(ath[t], EVENT_IN) ELSE ath[t])
                    EXCEPT !.hasSpace = e.hasSpace, !.enq = @ + 1,
                           !.pc = "a_loop"]
       IN /\ acceptQueue' = e.queue
          /\ ath' = Disturb([ath EXCEPT ![t] = r1], t)
    /\ UNCHANGED <<queueErr, dequeued, arrived, acceptedN>>

\* the Accept call returned; its frame is gone
Accept_Return(t) ==
    /\ ath[t].pc = "ret"
    /\ ath' = [ath EXCEPT ![t] = IdleAccept]
    /\ UNCHANGED <<acceptQueue, queueErr, dequeued, arrived, acceptedN>>

\* the guest takes the oldest connection from the queue
GuestDequeue ==
    /\ NoAcceptReturning
    /\ acceptQueue /= <<>>
    /\ dequeued' = Append(dequeued, Head(acceptQueue))
    /\ acceptQueue' = Tail(acceptQueue)
    /\ ath' = [u \in Threads |->
                 IF ath[u].pc /= "idle" THEN [ath[u] EXCEPT !.quiet = FALSE]
                 ELSE ath[u]]
    /\ UNCHANGED <<queueErr, arrived, acceptedN>>

\* the host completes one more connection on the listening socket
HostConnect ==
    /\ NoAcceptReturning
    /\ arrived < MaxConns
    /\ arrived' = arrived + 1
    /\ UNCHANGED <<acceptQueue, queueErr, dequeued, acceptedN, ath>>

InitAccept == InitAccVars /\ ViewIdle /\ VVIdle /\ SockIdle
NextAccept ==
    \/ \E t \in Threads : Server_Notify(t) /\ UNCHANGED <<viewVars, vvVars, sockVars>>
    \/ \E t \in Threads : Accept_HasSpace(t) /\ UNCHANGED <<viewVars, vvVars, sockVars>>
    \/ \E t \in Threads : Accept_Accept4(t) /\ UNCHANGED <<viewVars, vvVars, sockVars>>
    \/ \E t \in Threads : Accept_ErrSignal(t) /\ UNCHANGED <<viewVars, vvVars, sockVars>>
    \/ \E t \in Threads : Accept_SetErr(t) /\ UNCHANGED <<viewVars, vvVars, sockVars>>
    \/ \E t \in Threads : Accept_Enq(t) /\ UNCHANGED <<viewVars, vvVars, sockVars>>
    \/ \E t \in Threads : Accept_Return(t) /\ UNCHANGED <<viewVars, vvVars, sockVars>>
    \/ GuestDequeue /\ UNCHANGED <<viewVars, vvVars, sockVars>>
    \/ HostConnect /\ UNCHANGED <<viewVars, vvVars, sockVars>>
SpecAccept == InitAccept /\ [][NextAccept]_vars

InitSock == InitSockVars /\ ViewIdle /\ VVIdle /\ AccIdle
NextSock ==
    \/ \E t \in Threads : Notify(t) /\ UNCHANGED <<viewVars, vvVars, accVars>>
    \/ \E t \in Threads : CallRead(t) /\ UNCHANGED <<viewVars, vvVars, accVars>>
    \/ \E t \in Threads : CallWrite(t) /\ UNCHANGED <<viewVars, vvVars, accVars>>
    \/ \E t \in Threads : Return(t) /\ UNCHANGED <<viewVars, vvVars, accVars>>
    \/ \E t \in Threads : ReadLock(t) /\ UNCHANGED <<viewVars, vvVars, accVars>>
    \/ \E t \in Threads : ReadHost(t) /\ UNCHANGED <<viewVars, vvVars, accVars>>
    \/ \E t \in Threads : ReadClosedSignal(t) /\ UNCHANGED <<viewVars, vvVars, accVars>>
    \/ \E t \in Threads : ReadErrSignal(t) /\ UNCHANGED <<viewVars, vvVars, accVars>>
    \/ \E t \in Threads : WriteLock(t) /\ UNCHANGED <<viewVars, vvVars, accVars>>
    \/ \E t \in Threads : WriteHost(t) /\ UNCHANGED <<viewVars, vvVars, accVars>>
    \/ \E t \in Threads : WriteClosedSignal(t) /\ UNCHANGED <<viewVars, vvVars, accVars>>
    \/ \E t \in Threads : WriteErrSignal(t) /\ UNCHANGED <<viewVars, vvVars, accVars>>
    \/ GuestConsume /\ UNCHANGED <<viewVars, vvVars, accVars>>
    \/ GuestStage /\ UNCHANGED <<viewVars, vvVars, accVars>>
    \/ GuestShutdown /\ UNCHANGED <<viewVars, vvVars, accVars>>
SpecSock == InitSock /\ [][NextSock]_vars

\* the data socket driven by readiness notifications only: every pump is
\* entered through Notify
NextNotify ==
    \/ \E t \in Threads : Notify(t) /\ UNCHANGED <<viewVars, vvVars, accVars>>
    \/ \E t \in Threads : Return(t) /\ UNCHANGED <<viewVars, vvVars, accVars>>
    \/ \E t \in Threads : ReadLock(t) /\ UNCHANGED <<viewVars, vvVars, accVars>>
    \/ \E t \in Threads : ReadHost(t) /\ UNCHANGED <<viewVars, vvVars, accVars>>
    \/ \E t \in Threads : ReadClosedSignal(t) /\ UNCHANGED <<viewVars, vvVars, accVars>>
    \/ \E t \in Threads : ReadErrSignal(t) /\ UNCHANGED <<viewVars, vvVars, accVars>>
    \/ \E t \in Threads : WriteLock(t) /\ UNCHANGED <<viewVars, vvVars, accVars>>
    \/ \E t \in Threads : WriteHost(t) /\ UNCHANGED <<viewVars, vvVars, accVars>>
    \/ \E t \in Threads : WriteClosedSignal(t) /\ UNCHANGED <<viewVars, vvVars, accVars>>
    \/ \E t \in Threads : WriteErrSignal(t) /\ UNCHANGED <<viewVars, vvVars, accVars>>
    \/ GuestConsume /\ UNCHANGED <<viewVars, vvVars, accVars>>
    \/ GuestStage /\ UNCHANGED <<viewVars, vvVars, accVars>>
    \/ GuestShutdown /\ UNCHANGED <<viewVars, vvVars, accVars>>
SpecNotify == InitSock /\ [][NextNotify]_vars

----------------------------------------------------------------------------
InitView == InitViewVars /\ VVIdle /\ SockIdle /\ AccIdle
NextView ==
    \/ View_TrimFront /\ UNCHANGED <<vvVars, sockVars, accVars>>
    \/ View_TrimFrontPanic /\ UNCHANGED <<vvVars, sockVars, accVars>>
    \/ View_CapLength /\ UNCHANGED <<vvVars, sockVars, accVars>>
SpecView == InitView /\ [][NextView]_vars

InitVV == InitVVVars /\ ViewIdle /\ SockIdle /\ AccIdle
NextVV ==
    \/ VV_TrimFront /\ UNCHANGED <<viewVars, sockVars, accVars>>
    \/ VV_CapLength /\ UNCHANGED <<viewVars, sockVars, accVars>>
    \/ VV_RemoveFirst /\ UNCHANGED <<viewVars, sockVars, accVars>>
    \/ VV_Append /\ UNCHANGED <<viewVars, sockVars, accVars>>
    \/ VV_ToView /\ UNCHANGED <<viewVars, sockVars, accVars>>
    \/ View_ToVectorisedView /\ UNCHANGED <<viewVars, sockVars, accVars>>
SpecVV == InitVV /\ [][NextVV]_vars

----------------------------------------------------------------------------
\* C1: after TrimFront, CapLength, RemoveFirst or Append on a VectorisedView
\* built with size = sum of segment lengths, the cached size equals the sum of
\* the lengths of the remaining segments.
C1_SizeIsSumOfSegments ==
    op.name \in {"New", "TrimFront", "CapLength", "RemoveFirst", "Append"}
        => size = SumLen(views)

\* C2: CapLength(length) with length >= size changes neither the size nor the
\* segments.
C2_CapAtOrBeyondSizeIsNoOp ==
    (op.name = "CapLength" /\ op.arg >= pre.size)
        => (views = pre.views /\ size = pre.size)

\* C3: TrimFront(count) never underflows and leaves size = max(size - count, 0),
\* with an empty segment sequence when count > size.
C3_TrimFrontSaturates ==
    /\ ~underflow
    /\ op.name = "TrimFront" =>
         /\ size = Max(pre.size - op.arg, 0)
         /\ op.arg > pre.size => views = <<>>

C3_Witness ==
    /\ op.name = "TrimFront" /\ op.arg > pre.size /\ Len(pre.views) = 2
    /\ pre.size > 0 /\ views = <<>> /\ size = 0

\* C4: the visible length of a View never exceeds the length it was created
\* with, and after CapLength(L) it never exceeds L again.
C4_CapNeverGrowsBack ==
    /\ Len(bview) <= created
    /\ capped /= <<>> => Len(bview) <= capped[1]

\* C5: ToView followed by ToVectorisedView gives one segment whose length and
\* the cached size equal the original size, holding the original bytes in
\* segment order.
C5_MaterializeRoundTrip ==
    op.name = "ToVectorisedView" =>
        /\ Len(views) = 1
        /\ size = matSrc.size
        /\ Len(views[1]) = matSrc.size
        /\ views[1] = Concat(matSrc.views)

C5_Witness ==
    /\ op.name = "ToVectorisedView"
    /\ Len(matSrc.views) = 2
    /\ matSrc.views[1] /= <<>> /\ matSrc.views[2] /= <<>>
    /\ matSrc.views[1] \o matSrc.views[2] /= matSrc.views[2] \o matSrc.views[1]
    /\ size = 3

\* C6: the bytes the read pump made visible are a prefix of the host's incoming
\* stream, in order and complete, and the bytes handed to host write calls are
\* a prefix of the bytes the guest staged, in order and complete.
C6_NoLossNoDupInOrder ==
    /\ visible = [i \in 1..Len(visible) |-> InByte(i)]
    /\ Len(visible) = hostInPos
    /\ Len(visible) = rProduced
    /\ hostOut = [i \in 1..Len(hostOut) |-> OutByte(i)]
    /\ Len(hostOut) = wConsumed
    /\ wConsumed <= wProduced

C6_Witness ==
    /\ Len(visible) = MaxIn /\ rConsumed > 0
    /\ Len(hostOut) = MaxOut
    /\ \E t1, t2 \in Threads : th[t1].pc = "r_lock" /\ th[t2].pc = "r_read"

InReadCS(t)  == th[t].pc \in {"r_read", "r_closed", "r_err"}
InWriteCS(t) == th[t].pc \in {"w_write", "w_closed", "w_err"}

\* C7: at most one thread is inside the read pump's critical section and at
\* most one inside the write pump's, and each guard is held exactly while a
\* thread is inside its section.
C7_OnePumpPerDirection ==
    /\ Cardinality({t \in Threads : InReadCS(t)}) <= 1
    /\ Cardinality({t \in Threads : InWriteCS(t)}) <= 1
    /\ readLock = (\E t \in Threads : InReadCS(t))
    /\ writeLock = (\E t \in Threads : InWriteCS(t))

\* a read pump and a write pump of the descriptor are in their sections together
C7_Witness ==
    \E t1, t2 \in Threads : th[t1].pc = "r_read" /\ th[t2].pc = "w_write"

ReadSawEagain(t) ==
    /\ th[t].pc \in {"ret", "r_err"} /\ th[t].dir = "read"
    /\ th[t].len = -1 /\ th[t].errno = EAGAIN

\* C8 as stated: a read pump call in which a host read returned EAGAIN has
\* advanced the produced cursor by nothing and emitted no signal.
C8_EagainPumpSilent ==
    \A t \in Threads :
        ReadSawEagain(t) => (th[t].advanced = 0 /\ th[t].sigs = <<>>)

\* C8 amended: the EAGAIN result adds no signal and ends the call; a call whose
\* first host read returns EAGAIN advances nothing and emits nothing, and what
\* a longer call emitted are the READABLE signals of its earlier reads.
C8_EagainAddsNothing ==
    \A t \in Threads :
        ReadSawEagain(t) =>
            /\ th[t].pc = "ret"
            /\ bufErr /= EAGAIN
            /\ Len(th[t].sigs) <= th[t].ioCalls - 1
            /\ \A i \in 1..Len(th[t].sigs) : th[t].sigs[i] = EVENT_IN
            /\ th[t].ioCalls = 1 => (th[t].advanced = 0 /\ th[t].sigs = <<>>)

C8_Witness ==
    \E t \in Threads :
        /\ ReadSawEagain(t) /\ th[t].ioCalls = 1
        /\ th[t].sigs = <<>> /\ rProduced > 0

ReadSawZero(t) ==
    th[t].pc = "ret" /\ th[t].dir = "read" /\ th[t].zeroAt >= 0

\* C9 as stated: a read pump call in which a host read returned 0 has marked
\* the buffer read-closed and emitted exactly one signal, READABLE if unread
\* data remains and HANG_UP otherwise.
C9_ZeroReadOneSignal ==
    \A t \in Threads :
        ReadSawZero(t) =>
            /\ rClosed
            /\ th[t].sigs = <<IF HasReadData THEN EVENT_IN ELSE EVENT_HUP>>
            /\ th[t].ioCalls = th[t].zeroIo

\* C9 amended: for the zero-length result the pump marks the buffer read-closed
\* and emits exactly one signal, READABLE if unread data remains and HANG_UP
\* otherwise, then returns without another host read; before it the call has
\* emitted only the READABLE signals of its earlier reads.
C9_ZeroReadOneClosingSignal ==
    \A t \in Threads :
        ReadSawZero(t) =>
            /\ rClosed
            /\ Len(th[t].sigs) = th[t].zeroAt + 1
            /\ th[t].sigs[Len(th[t].sigs)] =
                   (IF HasReadData THEN EVENT_IN ELSE EVENT_HUP)
            /\ \A i \in 1..th[t].zeroAt : th[t].sigs[i] = EVENT_IN
            /\ th[t].ioCalls = th[t].zeroIo
            /\ th[t].len = 0

C9_Witness ==
    \E t \in Threads :
        /\ ReadSawZero(t) /\ th[t].zeroAt = 0 /\ HasReadData
        /\ th[t].sigs = <<EVENT_IN>>

\* C10: a Notify call that finds an error latched emits exactly one
\* ERROR+READABLE signal, makes no host read or write call and returns.
C10_LatchedErrorShortCircuits ==
    \A t \in Threads :
        th[t].errAtEntry /= NoError =>
            /\ th[t].pc = "ret"
            /\ th[t].sigs = <<EVENT_ERR \cup EVENT_IN>>
            /\ th[t].ioCalls = 0
            /\ th[t].dir = "none"

C10_Witness ==
    \E t \in Threads :
        /\ th[t].errAtEntry /= NoError /\ th[t].pc = "ret"
        /\ th[t].mask = EVENT_READ \cup EVENT_WRITE
        /\ th[t].sigs = <<EVENT_ERR \cup EVENT_IN>>

\* C14: CapLength(length) with length < size keeps exactly the first length
\* bytes: the segments wholly before the boundary unchanged, the straddling
\* segment capped to the remaining length, nothing after it, and size = length.
C14_CapKeepsPrefix ==
    (op.name = "CapLength" /\ op.arg < pre.size) =>
        /\ size = op.arg
        /\ Concat(views) = SubSeq(Concat(pre.views), 1, op.arg)
        /\ Len(views) <= Len(pre.views)
        /\ \A i \in 1..Len(views) :
              \/ views[i] = pre.views[i]
              \/ /\ i = Len(views)
                 /\ views[i] = SubSeq(pre.views[i], 1, Len(views[i]))

\* C12: a host read that returns n with 0 < n < the capacity asked for
\* advances the produced cursor by exactly n, signals READABLE exactly when
\* the buffer reports the trigger, and ends the pump (guard released, no
\* further host read); when the capacity asked for was still the buffer's free
\* capacity (the guest consumed nothing in between), the capacity the next
\* pump finds is that capacity minus n.
ShortReadStep(t) ==
    /\ th[t].pc = "r_read"
    /\ th'[t].ioCalls = th[t].ioCalls + 1
    /\ 0 < th'[t].len
    /\ th'[t].len < th[t].count

C12_ShortReadStops ==
    [][\A t \in Threads : ShortReadStep(t) =>
          /\ rProduced' = rProduced + th'[t].len
          /\ rConsumed' = rConsumed
          /\ th'[t].advanced = th[t].advanced + th'[t].len
          /\ th'[t].trigger = (rProduced = rConsumed)
          /\ th'[t].sigs = IF th'[t].trigger
                           THEN Append(th[t].sigs, EVENT_IN)
                           ELSE th[t].sigs
          /\ th'[t].pc = "ret"
          /\ th'[t].ended = "short"
          /\ readLock' = FALSE
          /\ (FreeReadBuf(rProduced, rConsumed).count = th[t].count =>
                FreeReadBuf(rProduced', rConsumed').count =
                    th[t].count - th'[t].len)]_vars

C12_Witness ==
    \E t \in Threads :
        /\ th[t].pc = "ret"
        /\ th[t].dir = "read"
        /\ th[t].ended = "short"
        /\ th[t].len = 1
        /\ th[t].count = 2
        /\ th[t].sigs = <<EVENT_IN>>
        /\ ~readLock
        /\ GetFreeReadBuf.count = 1

\* C13: a write pump that finds zero available-to-send bytes on entry makes
\* no host write, emits no signal (no PENDING_SHUTDOWN either), leaves the
\* buffer's cursors and latches and the host untouched, and returns.
EmptyWriteEntry(t) ==
    /\ th[t].pc = "w_lock"
    /\ th'[t] /= th[t]
    /\ GetAvailableWriteBuf.count = 0

C13_EmptyWritePumpIsNoOp ==
    [][\A t \in Threads : EmptyWriteEntry(t) =>
          /\ th'[t].pc = "ret"
          /\ th'[t].ended = "nodata"
          /\ th'[t].ioCalls = 0
          /\ th'[t].sigs = <<>>
          /\ bufVars' = bufVars
          /\ hostVars' = hostVars
          /\ writeLock' = FALSE]_vars

C13_Witness ==
    \E t \in Threads :
        /\ th[t].pc = "ret"
        /\ th[t].dir = "write"
        /\ th[t].ended = "nodata"
        /\ th[t].ioCalls = 0
        /\ th[t].sigs = <<>>
        /\ pendingWShutdown
        /\ wConsumed = wProduced
        /\ wProduced > 0

\* C18: PENDING_SHUTDOWN is signalled only as the last act of a write pump
\* whose last host write consumed the whole batch asked for and left nothing
\* available to send while a pending shutdown was requested; never after a
\* short write, a would-block, a zero-length write or an error; the pump has
\* returned and dropped its guard.
SignalledPendingShutdown(t) ==
    \E i \in 1..Len(th[t].sigs) : th[t].sigs[i] = EVENT_PENDING_SHUTDOWN

NotifyStep(t) ==
    /\ th[t].pc = "idle"
    /\ th'[t].pc /= "idle"

C17_NotifyDrivesOneDirection ==
    [][\A t \in Threads : (NotifyStep(t) /\ Error = NoError) =>
          /\ th'[t].pc =
                IF th'[t].mask \cap EVENT_READ /= {} THEN "r_lock"
                ELSE IF th'[t].mask \cap EVENT_WRITE /= {} THEN "w_lock"
                ELSE "ret"
          /\ th'[t].pc = "ret" => th'[t].ended = "nobits"
          /\ th'[t].ioCalls = 0
          /\ th'[t].sigs = <<>>
          /\ th'[t].dir = "none"
          /\ <<readLock, writeLock, bufVars, hostVars>>' =
                 <<readLock, writeLock, bufVars, hostVars>>]_vars

C17_Witness ==
    \E t \in Threads :
        /\ th[t].pc = "r_lock"
        /\ th[t].mask = EVENT_READ \cup EVENT_WRITE
        /\ th[t].errAtEntry = NoError
        /\ \E u \in Threads :
              th[u].pc = "w_write" /\ th[u].errAtEntry = NoError

\* C16 as stated: once an error is latched on the buffer no host read or
\* write is issued, whatever the interleaving of the concurrent Notify calls.
HostCall(t) == th'[t].ioCalls = th[t].ioCalls + 1

C16_NoHostCallAfterLatch ==
    [][\A t \in Threads : Error /= NoError => ~HostCall(t)]_vars

\* C16: a Notify that begins after the error was latched short-circuits
\* without a host call; the host calls issued after the latch come only from
\* a pump that passed Notify's check before the latch and is still running.
C16_LatchStopsLaterNotifies ==
    [][\A t \in Threads :
          /\ (Error /= NoError /\ NotifyStep(t)) =>
                /\ th'[t].pc = "ret"
                /\ th'[t].ended = "latched"
                /\ th'[t].ioCalls = 0
          /\ (Error /= NoError /\ HostCall(t)) =>
                /\ th[t].errAtEntry = NoError
                /\ th[t].pc \in {"r_read", "w_write"}]_vars

C16_Witness ==
    \E t, u \in Threads :
        /\ Error /= NoError
        /\ th[t].pc = "ret"
        /\ th[t].ended = "latched"
        /\ th[u].pc = "w_write"
        /\ th[u].errAtEntry = NoError

\* C11: an accept pump that starts with no error latched and runs with nobody
\* else adding to or taking from the queue enqueues at most as many
\* connections as the queue had free slots at its entry, accepts only while
\* a slot is free, stops once the queue reports no space, and signals
\* READABLE only for the enqueue that took the queue from empty to non-empty.
AcceptSignals(t) ==
    IF ath[t].freeAtEntry = QueueLen /\ ath[t].enq >= 1
    THEN <<EVENT_IN>> ELSE <<>>

C11_AcceptPumpBounded ==
    \A t \in Threads :
        (ath[t].pc \notin {"idle"} /\ ath[t].quiet /\ ath[t].ended /= "latched") =>
            /\ ath[t].enq <= ath[t].freeAtEntry
            /\ ath[t].freeAtEntry > 0 =>
                   Len(acceptQueue) = QueueLen - ath[t].freeAtEntry + ath[t].enq
            /\ ath[t].pc = "a_enq" => ath[t].enq < ath[t].freeAtEntry
            /\ (ath[t].pc = "a_loop" /\ ath[t].hasSpace) =>
                   ath[t].enq < ath[t].freeAtEntry
            /\ ath[t].ended = "full" => ~HasSpace
            /\ ath[t].pc \in {"a_space", "a_loop", "a_enq", "a_errsig"} \/
               ath[t].ended \in {"full", "eagain"} =>
                   ath[t].sigs = AcceptSignals(t)
            /\ ath[t].pc = "a_seterr" \/ ath[t].ended = "error" =>
                   ath[t].sigs = Append(AcceptSignals(t), EVENT_ERR \cup EVENT_IN)

C11_Witness ==
    \E t \in Threads :
        /\ ath[t].pc = "ret"
        /\ ath[t].ended = "full"
        /\ ath[t].quiet
        /\ ath[t].freeAtEntry = 2
        /\ ath[t].enq = 2
        /\ ath[t].sigs = <<EVENT_IN>>
        /\ Len(acceptQueue) = 2

\* C15: on an accept failure other than would-block the error is latched on
\* the accept queue before ERROR+READABLE is signalled: whenever such a signal
\* of an accept pump is out, the queue's error is already non-zero.
SignalledError(t) ==
    \E i \in 1..Len(ath[t].sigs) : ath[t].sigs[i] = EVENT_ERR \cup EVENT_IN

C15_ErrorLatchedBeforeSignal ==
    \A t \in Threads : SignalledError(t) => Err /= NoError

\* C20: under any interleaving of concurrent Notify calls on the listening
\* descriptor and guest dequeues, a connection is accepted only while the
\* queue has a slot for it, the queue never holds more than its capacity,
\* every accepted connection is enqueued exactly once, and the connections
\* not yet accepted are still in the host's backlog.
HeldBy(c) == {t \in Threads : ath[t].pc = "a_enq" /\ ath[t].fd = c}
Entries(c) ==
    LET all == acceptQueue \o dequeued
    IN {i \in 1..Len(all) : all[i] = c}

C20_AcceptBackpressure ==
    /\ Len(acceptQueue) <= QueueLen
    /\ Len(acceptQueue) + Cardinality({t \in Threads : ath[t].pc = "a_enq"})
           <= QueueLen
    /\ \A c \in 1..acceptedN :
           Cardinality(Entries(c)) + Cardinality(HeldBy(c)) = 1
    /\ acceptedN <= arrived

----------------------------------------------------------------------------
\* The data socket on an endless stream, under fair scheduling.
\* The SocketBuff cursors, the host stream position and the ghost histories
\* only grow; what the pumps read of them is the cursors' difference and their
\* position in the ring.  Renumber moves the origin of the streams forward by
\* one ring size once the consumer has passed it and forgets the per-call
\* ghosts but the number of host calls, counted as 0, 1, many, so that an
\* endless stream is a finite-state system.

Saturate(r) ==
    [r EXCEPT !.ioCalls  = Min(@, 2),
              !.advanced = 0,
              !.sigs     = <<>>,
              !.zeroAt   = -1,
              !.zeroIo   = -1]

Over ==
    \/ rConsumed >= RingSize
    \/ wConsumed >= RingSize
    \/ \E t \in Threads : th[t] /= Saturate(th[t])

Renumber ==
    /\ Over
    /\ LET kr == IF rConsumed >= RingSize THEN RingSize ELSE 0
           kw == IF wConsumed >= RingSize THEN RingSize ELSE 0
       IN /\ rProduced' = rProduced - kr
          /\ rConsumed' = rConsumed - kr
          /\ hostInPos' = hostInPos - kr
          /\ visible' = [i \in 1..(Len(visible) - kr) |-> visible[i + kr] - kr]
          /\ rmem' = [i \in Ring |-> Max(rmem[i] - kr, 0)]
          /\ wProduced' = wProduced - kw
          /\ wConsumed' = wConsumed - kw
          /\ hostOut' = [i \in 1..(Len(hostOut) - kw) |-> hostOut[i + kw] - kw]
          /\ wmem' = [i \in Ring |-> Max(wmem[i] - kw, 0)]
    /\ th' = [t \in Threads |-> Saturate(th[t])]
    /\ UNCHANGED <<readLock, writeLock, rClosed, wClosed, bufErr,
                   pendingWShutdown, hostEOF>>

\* a step of thread t inside a call: every one of them is non-blocking
PumpStep(t) ==
    /\ ~Over
    /\ \/ Return(t)
       \/ ReadHost(t)
       \/ ReadClosedSignal(t)
       \/ ReadErrSignal(t)
       \/ WriteHost(t)
       \/ WriteClosedSignal(t)
       \/ WriteErrSignal(t)
    /\ UNCHANGED <<viewVars, vvVars, accVars>>

GuestActs ==
    /\ ~Over
    /\ \/ GuestConsume
       \/ GuestStage
       \/ GuestShutdown
    /\ UNCHANGED <<viewVars, vvVars, accVars>>

\* one worker thread serves the descriptor: it runs one pump after the other,
\* the guest runs beside it
Worker == "t1"

NextLive ==
    \/ ~Over /\ CallRead(Worker) /\ UNCHANGED <<viewVars, vvVars, accVars>>
    \/ ~Over /\ CallWrite(Worker) /\ UNCHANGED <<viewVars, vvVars, accVars>>
    \/ \E t \in Threads : ~Over /\ ReadLock(t) /\ UNCHANGED <<viewVars, vvVars, accVars>>
    \/ \E t \in Threads : ~Over /\ WriteLock(t) /\ UNCHANGED <<viewVars, vvVars, accVars>>
    \/ \E t \in Threads : PumpStep(t)
    \/ GuestActs
    \/ Renumber /\ UNCHANGED <<viewVars, vvVars, accVars>>

\* The scheduler runs every thread that is inside a call again and again;
\* nothing is assumed of when Notify is called or of the guest.  A step inside
\* a call never waits in the code: here it is disabled only for the moment in
\* which another thread's Return or Renumber goes first, hence SF.
SpecLive ==
    /\ InitSock
    /\ [][NextLive]_vars
    /\ \A t \in Threads : SF_vars(PumpStep(t))
    /\ WF_vars(Renumber /\ UNCHANGED <<viewVars, vvVars, accVars>>)

\* C19 as stated: every read pump and write pump invocation eventually
\* returns and releases its guard, also while the guest frees read space or
\* stages more bytes.
C19_PumpReturns ==
    \A t \in Threads :
        (InReadCS(t) \/ InWriteCS(t)) ~> (th[t].pc = "ret")

\* C19: every pass of a pump is non-blocking, and a pump returns and releases
\* its guard once the guest stops freeing read space and staging bytes; a pump
\* that never returns is one whose every pass moves the whole batch asked for
\* and finds more to do because the guest keeps acting.
C19_PumpReturnsOnceGuestRests ==
    (<>[][~GuestActs]_vars) => C19_PumpReturns

C19_Witness ==
    \E t \in Threads :
        /\ th[t].pc = "ret"
        /\ th[t].dir = "read"
        /\ th[t].ended = "eagain"
        /\ th[t].ioCalls = 2
        /\ ~readLock
        /\ rConsumed > 0
        /\ wProduced > 0
====
